---- MODULE Spec2Model ----
(***************************************************************************)
(* Flood dashboard: the ingestion of gauge readings into a rolling 24-hour *)
(* window (fetch_data.py), the percent rate of change per gauge            *)
(* (analyze_rate_of_change.py, process_gauge_data.py) and the comparison   *)
(* with the historical 90th percentile (compare_to_p90.py).                *)
(*                                                                         *)
(* A DataFrame is a sequence of rows (records); a CSV file is a record     *)
(* [exists, rows].  Only the columns the computations read are kept:       *)
(* site_name, latitude, longitude and region are carried along unchanged   *)
(* by the code and are left out.                                           *)
(***************************************************************************)
EXTENDS Integers, Sequences, FiniteSets, TLC

(***************************************************************************)
(* Bounds of the model.                                                    *)
(***************************************************************************)
MaxLen == 4        \* rows of an input series of the rate-of-change stage
MaxCur == 2        \* rows of the current snapshot of the comparison stage
MaxHist == 2       \* rows of the baseline table of the comparison stage
MaxTicks == 3      \* clock steps of the ingestion pipeline
MaxRuns == 2       \* runs of fetch_data.main

Sites == {1, 2}    \* site_no, as read back from a CSV (integers)

(***************************************************************************)
(* float64 values as pandas holds them: a finite value is an exact         *)
(* rational n/d in lowest terms (d > 0), and nan, inf, -inf are themselves.*)
(* A missing value (None, an empty CSV cell) is nan.                       *)
(***************************************************************************)
Abs(i) == IF i < 0 THEN -i ELSE i

RECURSIVE Gcd(_, _)
Gcd(a, b) == IF b = 0 THEN a ELSE Gcd(b, a % b)

NaN == [k |-> "nan", n |-> 0, d |-> 1]
Inf == [k |-> "inf", n |-> 1, d |-> 1]
NegInf == [k |-> "inf", n |-> -1, d |-> 1]

Num(n, d) ==
    LET g == Gcd(Abs(n), Abs(d))
        s == IF d < 0 THEN -1 ELSE 1
    IN  [k |-> "num", n |-> (s * n) \div g, d |-> (s * d) \div g]

Flt(i) == Num(i, 1)

IsNull(a) == a.k = "nan"
IsFinite(a) == a.k = "num"

\* a - b
FSub(a, b) ==
    IF IsNull(a) \/ IsNull(b) THEN NaN
    ELSE IF IsFinite(a) /\ IsFinite(b) THEN Num(a.n * b.d - b.n * a.d, a.d * b.d)
    ELSE IF IsFinite(b) THEN a
    ELSE IF IsFinite(a) THEN [b EXCEPT !.n = -b.n]
    ELSE IF a.n = b.n THEN NaN ELSE a

\* a / b: a finite value over zero is a signed infinity, 0/0 is nan
FDiv(a, b) ==
    IF IsNull(a) \/ IsNull(b) THEN NaN
    ELSE IF IsFinite(a) /\ IsFinite(b) THEN
        IF b.n = 0 THEN (IF a.n = 0 THEN NaN ELSE IF a.n > 0 THEN Inf ELSE NegInf)
        ELSE Num(a.n * b.d, a.d * b.n)
    ELSE IF IsFinite(b) THEN (IF b.n < 0 THEN [a EXCEPT !.n = -a.n] ELSE a)
    ELSE IF IsFinite(a) THEN Flt(0)
    ELSE NaN

\* a * b
FMul(a, b) ==
    IF IsNull(a) \/ IsNull(b) THEN NaN
    ELSE IF IsFinite(a) /\ IsFinite(b) THEN Num(a.n * b.n, a.d * b.d)
    ELSE IF a.n = 0 \/ b.n = 0 THEN NaN
    ELSE IF (a.n > 0) = (b.n > 0) THEN Inf ELSE NegInf

\* a >= b: every comparison with nan is False
FGe(a, b) ==
    IF IsNull(a) \/ IsNull(b) THEN FALSE
    ELSE IF IsFinite(a) /\ IsFinite(b) THEN a.n * b.d >= b.n * a.d
    ELSE IF IsFinite(b) THEN a.n > 0
    ELSE IF IsFinite(a) THEN b.n < 0
    ELSE a.n >= b.n

(***************************************************************************)
(* Sequences.                                                              *)
(***************************************************************************)
SeqsUpTo(S, n) == UNION {[1..m -> S] : m \in 0..n}

\* the indices 1..Len(s), as a sequence
Range(s) == [i \in 1..Len(s) |-> i]

\* a function over 1..n as a sequence with its values computed
Column(f) == f \o <<>>

(***************************************************************************)
(* Rate of change: compute_rate_of_change of analyze_rate_of_change.py and *)
(* of process_gauge_data.py (the same code up to the returned rows).       *)
(***************************************************************************)
\* Lookback counts in rows.  The code's 12, 36 and 72 are scaled to 1, 2
\* and 3 so that series of MaxLen rows reach every lookback; the
\* computation is the same for any count.
WINDOWS == [h1 |-> 1, h3 |-> 2, h6 |-> 3]
Labels == DOMAIN WINDOWS

BySiteThenTime(a, b) ==
    \/ a.site_no < b.site_no
    \/ a.site_no = b.site_no /\ a.timestamp_utc <= b.timestamp_utc

\* stable insertion of row r into a sequence sorted by site, then time
RECURSIVE InsertSorted(_, _)
InsertSorted(s, r) ==
    IF s = <<>> THEN <<r>>
    ELSE IF BySiteThenTime(s[Len(s)], r) THEN Append(s, r)
    ELSE Append(InsertSorted(SubSeq(s, 1, Len(s) - 1), r), s[Len(s)])

\* df.sort_values(["site_no", "timestamp_utc"]): a stable lexsort
RECURSIVE SortValues(_)
SortValues(df) ==
    IF df = <<>> THEN <<>>
    ELSE InsertSorted(SortValues(SubSeq(df, 1, Len(df) - 1)), df[Len(df)])

SitesOf(df) == {df[i].site_no : i \in 1..Len(df)}

\* Series.shift(n) within one group
Shift(x, n) == Column([i \in 1..Len(x) |-> IF i > n THEN x[i - n] ELSE NaN])

\* lambda x: (x - x.shift(window)) / x.shift(window) * 100
PctChange(x, n) ==
    LET shifted == Shift(x, n)
    IN  Column([i \in 1..Len(x) |->
                   FMul(FDiv(FSub(x[i], shifted[i]), shifted[i]), Flt(100))])

\* the indices of the rows of site s, in order: one group of groupby("site_no")
GroupAll(df, s) == Range(df)
Group(df, s) == SelectSeq(Range(df), LAMBDA i : df[i].site_no = s)

\* groupby("site_no")["flow_cfs"].transform(...): the function is applied
\* to the flows of each group, and the value for row i is the one computed
\* at its place in its own group
Transform(df, n) ==
    LET flows(s) == LET g == Group(df, s)
                    IN  Column([j \in 1..Len(g) |-> df[g[j]].flow_cfs])
        applied == [s \in Sites |-> PctChange(flows(s), n)]
        place(i) == Cardinality({j \in 1..i : df[j].site_no = df[i].site_no})
    IN  Column([i \in 1..Len(df) |-> applied[df[i].site_no][place(i)]])

\* the rows with the three pct_change columns added
WithPctChange(df) ==
    LET sorted == SortValues(df)
        h1 == Transform(sorted, WINDOWS.h1)
        h3 == Transform(sorted, WINDOWS.h3)
        h6 == Transform(sorted, WINDOWS.h6)
    IN  [i \in 1..Len(sorted) |->
            [site_no |-> sorted[i].site_no,
             timestamp_utc |-> sorted[i].timestamp_utc,
             flow_cfs |-> sorted[i].flow_cfs,
             pct_change |-> [h1 |-> h1[i], h3 |-> h3[i], h6 |-> h6[i]]]]

ByTime(a, b) == a.timestamp_utc <= b.timestamp_utc

RECURSIVE InsertByTime(_, _)
InsertByTime(s, r) ==
    IF s = <<>> THEN <<r>>
    ELSE IF ByTime(s[Len(s)], r) THEN Append(s, r)
    ELSE Append(InsertByTime(SubSeq(s, 1, Len(s) - 1), r), s[Len(s)])

RECURSIVE SortByTime(_)
SortByTime(df) ==
    IF df = <<>> THEN <<>>
    ELSE InsertByTime(SortByTime(SubSeq(df, 1, Len(df) - 1)), df[Len(df)])

\* df.sort_values("timestamp_utc"): the default sort of a single column is
\* not stable, so rows of equal timestamp may come out in any order.  What
\* follows the sort (tail(1) per site) reads only which row of a site comes
\* last and the order of those last rows, so the orders that matter are
\* reached by moving at most one row per site to the end of the frame
\* before a stable sort; moving a row changes nothing unless it has the
\* greatest timestamp of its site and shares it with another row.
\* TieBreaks is the set of those choices.
Tied(df) ==
    {i \in 1..Len(df) :
        /\ \A j \in 1..Len(df) :
              df[j].site_no = df[i].site_no => df[j].timestamp_utc <= df[i].timestamp_utc
        /\ \E j \in 1..Len(df) : j # i /\ df[j].timestamp_utc = df[i].timestamp_utc}

TieBreaks(df) ==
    {m \in SeqsUpTo(Tied(df), Cardinality(Sites)) :
        \A a, b \in 1..Len(m) : a < b => df[m[a]].site_no # df[m[b]].site_no}

MoveLast(df, m) ==
    LET moved == {m[a] : a \in 1..Len(m)}
        order == SelectSeq(Range(df), LAMBDA i : i \notin moved) \o m
    IN  [a \in 1..Len(df) |-> df[order[a]]]

\* groupby("site_no").tail(n): the last n rows of every site, in frame order
GroupHead(df, n) ==
    LET keep == SelectSeq(Range(df), LAMBDA i :
                    Cardinality({j \in 1..(i - 1) : df[j].site_no = df[i].site_no}) < n)
    IN  [a \in 1..Len(keep) |-> df[keep[a]]]
GroupTail(df, n) ==
    LET keep == SelectSeq(Range(df), LAMBDA i :
                    Cardinality({j \in (i + 1)..Len(df) : df[j].site_no = df[i].site_no}) < n)
    IN  [a \in 1..Len(keep) |-> df[keep[a]]]

\* analyze_rate_of_change.compute_rate_of_change, lines 18-24
LatestPerSite(df, m) == GroupTail(SortByTime(MoveLast(df, m)), 1)

(***************************************************************************)
(* Comparison with the baseline: prepare_current_data and                  *)
(* compare_to_historical of compare_to_p90.py.                             *)
(***************************************************************************)
SecondsPerDay == 86400

\* Series.dt.dayofyear of a UTC instant.  Instants are seconds since
\* 1 January 00:00 UTC of the year the model runs in, and stay within it.
DayOfYear(t) == (t \div SecondsPerDay) + 1

\* prepare_current_data: add day_of_year, then
\* dropna(subset=["day_of_year", "flow_cfs", "site_no"]); site_no and the
\* timestamp are never null in the frames of the model
PrepareCurrentData(df) ==
    LET with_day == [i \in 1..Len(df) |->
                        df[i] @@ [day_of_year |-> DayOfYear(df[i].timestamp_utc)]]
    IN  SelectSeq(with_day, LAMBDA r : ~IsNull(r.flow_cfs))

\* the rows of the baseline with the keys of row r, in baseline order
Matches(r, hist) ==
    SelectSeq(hist, LAMBDA h : h.site_no = r.site_no /\ h.day_of_year = r.day_of_year)

\* pd.merge(how="left", on site_no and day_of_year): every left row once
\* per matching right row, or once with a null p90_flow_cfs when none matches
RECURSIVE MergeLeft(_, _)
MergeLeft(cur, hist) ==
    IF cur = <<>> THEN <<>>
    ELSE LET r == Head(cur)
             found == Matches(r, hist)
             joined == IF found = <<>>
                       THEN <<r @@ [p90_flow_cfs |-> NaN]>>
                       ELSE [i \in 1..Len(found) |->
                               r @@ [p90_flow_cfs |-> found[i].p90_flow_cfs]]
         IN  joined \o MergeLeft(Tail(cur), hist)

\* merged["ratio"] >= 1.0
AtLeastOneStrict(ratio) == FGe(ratio, Flt(1)) /\ ratio # Flt(1)
AtLeastOne(ratio) == FGe(ratio, Flt(1))

\* compare_to_historical: ratio and high_flow on the merged rows
CompareToHistorical(cur, hist) ==
    LET merged == MergeLeft(cur, hist)
    IN  [i \in 1..Len(merged) |->
            LET ratio == FDiv(merged[i].flow_cfs, merged[i].p90_flow_cfs)
            IN  [site_no |-> merged[i].site_no,
                 timestamp_utc |-> merged[i].timestamp_utc,
                 flow_cfs |-> merged[i].flow_cfs,
                 p90_flow_cfs |-> merged[i].p90_flow_cfs,
                 ratio |-> ratio,
                 high_flow |-> AtLeastOne(ratio)]]

(***************************************************************************)
(* Ingestion: fetch_data.py.                                               *)
(***************************************************************************)
SecondsPerMinute == 60
SecondsPerHour == 3600
ColdStartHours == 24     \* load_last_timestamp: 24h ago if the file is missing
RetentionHours == 24     \* append_and_trim(hours=24)

\* a CSV file: absent, or the rows read_csv gives back
Missing == [exists |-> FALSE, rows |-> <<>>]
File(rows) == [exists |-> TRUE, rows |-> rows]

\* Readings are published on a regular grid (every 12 hours here, for the
\* service's 5 minutes), on whole minutes.
ReadingStep == 12 * SecondsPerHour

\* what the service can hold for one site in a response: no series, or a
\* series whose values are all this string
RawValues == {"Ice", "10"}
Conditions == RawValues \cup {"absent"}

\* float(v["value"]), None on ValueError or TypeError
ParseFlow(raw) == IF raw = "10" THEN Flt(10) ELSE NaN

\* strftime("%Y-%m-%dT%H:%M"): the instant cut to the minute
RenderMinute(t) == t - (t % SecondsPerMinute)

Max(S) == CHOOSE x \in S : \A y \in S : y <= x

\* load_last_timestamp for an existing file with rows: the greatest
\* timestamp plus one second
LastTimestamp(rows) == Max({rows[i].timestamp_utc : i \in 1..Len(rows)}) + 1

\* load_last_timestamp
LoadLastTimestamp(file, t) ==
    IF file.exists THEN LastTimestamp(file.rows)
    ELSE t - ColdStartHours * SecondsPerHour

\* the reading times the service returns for startDT..endDT
ReadingTimes(start, end) ==
    {t \in {k * ReadingStep : k \in 0..(end \div ReadingStep)} :
        RenderMinute(start) <= t /\ t <= RenderMinute(end)}

\* the times of a set, ascending
RECURSIVE Ascending(_)
Ascending(S) ==
    IF S = {} THEN <<>>
    ELSE LET m == Max(S) IN Append(Ascending(S \ {m}), m)

\* one timeSeries of the response as rows
SiteRows(s, raw, times) ==
    [i \in 1..Len(times) |->
        [site_no |-> s, timestamp_utc |-> times[i], flow_cfs |-> ParseFlow(raw)]]

\* fetch_va_iv_since: the rows of every timeSeries of the response
RECURSIVE ResponseRows(_, _, _)
ResponseRows(sites, cond, times) ==
    IF sites = {} THEN <<>>
    ELSE LET s == Max(sites)
         IN  ResponseRows(sites \ {s}, cond, times) \o
             (IF cond[s] = "absent" THEN <<>> ELSE SiteRows(s, cond[s], times))

FetchVaIvSince(start, t, cond) ==
    ResponseRows(Sites, cond, Ascending(ReadingTimes(start, t)))

\* append_and_trim at time t
AppendKeepNew(df_new, file, t) ==
    LET cutoff == t - RetentionHours * SecondsPerHour
        old == SelectSeq(file.rows, LAMBDA r : r.timestamp_utc >= cutoff)
    IN  File(old \o df_new)
AppendAndTrim(df_new, file, t) ==
    LET cutoff == t - RetentionHours * SecondsPerHour
        df_all == IF file.exists THEN file.rows \o df_new ELSE df_new
    IN  File(SelectSeq(df_all, LAMBDA r : r.timestamp_utc >= cutoff))

\* main, lines 115-119: what the run leaves in the data file
WriteAlways(df, file, t) == AppendAndTrim(df, file, t)
WriteIfNotEmpty(df, file, t) ==
    IF df # <<>> THEN AppendAndTrim(df, file, t) ELSE file

(***************************************************************************)
(* process_gauge_data.py: the processed output of the window.              *)
(***************************************************************************)
\* compare_to_historical of process_gauge_data.py: merge, then percentile
WithPercentile(cur, hist) ==
    LET merged == MergeLeft(cur, hist)
    IN  [i \in 1..Len(merged) |->
            merged[i] @@
            [percentile |-> FDiv(merged[i].flow_cfs, merged[i].p90_flow_cfs)]]

\* main, lines 86-99: the frame before the latest row per gauge is taken
ProcessedFrame(rows, hist) ==
    LET df_current == PrepareCurrentData(WithPctChange(rows))
    IN  IF hist.exists THEN WithPercentile(df_current, hist.rows)
        ELSE [i \in 1..Len(df_current) |-> df_current[i] @@ [percentile |-> NaN]]

\* main, lines 109-122: the columns written
FinalColumns(df) ==
    [i \in 1..Len(df) |->
        [site_no |-> df[i].site_no,
         timestamp_utc |-> df[i].timestamp_utc,
         flow_cfs |-> df[i].flow_cfs,
         pct_change |-> df[i].pct_change,
         percentile |-> df[i].percentile]]

(***************************************************************************)
(* State.                                                                  *)
(***************************************************************************)
VARIABLES
    series,     \* the frame handed to compute_rate_of_change
    rated,      \* the sorted frame with its pct_change columns
    latest,     \* the frame analyze_rate_of_change.compute_rate_of_change returns
    roc_pc,     \* "input" before the call, "done" after it
    df_current, \* compare_to_p90: the current rows as loaded
    df_hist,    \* compare_to_p90: the baseline table as loaded
    df_results, \* compare_to_p90: the comparison output
    cmp_pc,     \* "input" before the comparison, "done" after it
    now,        \* the clock, seconds
    gauge_data, \* data/gauge_data.csv, the rolling window
    fetched,    \* fetch_data.main: the frame of the last fetch
    outcome,    \* fetch_data.main: how the last run ended
    runs,       \* runs of fetch_data.main so far
    historical_p90,        \* data/historical_p90.csv
    gauge_data_processed,  \* data/gauge_data_processed.csv
    current_files,         \* data/north_va.csv and data/south_va.csv, as one file
    high_flow_summary,     \* data/high_flow_summary.csv
    compare_pc,            \* compare_to_p90.main: "ready" before the call, then how it ended
    rate_of_change,        \* data/derived/*_rate_of_change.csv, as one file
    update_log,            \* update_log.csv: its number of records
    update_pc,             \* update_data.update: the call it has reached
    at_start,              \* the data files as they were when the run of update began
    run_state,             \* overlapping runs of fetch_data.main: position and locals of each
    window_before          \* the window when the first of the overlapping runs began

rocVars == <<series, rated, latest, roc_pc>>
cmpVars == <<df_current, df_hist, df_results, cmp_pc>>
fetchVars == <<now, gauge_data, fetched, outcome, runs>>
processVars == <<historical_p90, gauge_data_processed>>
summaryVars == <<current_files, high_flow_summary, compare_pc>>
updateVars == <<rate_of_change, update_log, update_pc, at_start>>
overlapVars == <<run_state, window_before>>
stageVars == <<summaryVars, updateVars, overlapVars>>
vars == <<rocVars, cmpVars, fetchVars, processVars, stageVars>>

\* a stage that takes no part in a specification
IdleRoC == series = <<>> /\ rated = <<>> /\ latest = <<>> /\ roc_pc = "idle"
IdleCmp == df_current = <<>> /\ df_hist = <<>> /\ df_results = <<>> /\ cmp_pc = "idle"
IdleFiles ==
    /\ now = 0 /\ gauge_data = Missing /\ fetched = <<>> /\ outcome = "none" /\ runs = 0
    /\ historical_p90 = Missing /\ gauge_data_processed = Missing

\* the scripts that take no part in a specification
IdleSummary ==
    current_files = Missing /\ high_flow_summary = Missing /\ compare_pc = "idle"
IdleUpdate ==
    /\ rate_of_change = Missing /\ update_log = 0 /\ update_pc = "idle"
    /\ at_start = <<Missing, Missing, Missing>>
IdleOverlap ==
    /\ run_state = [r \in {} |-> "idle"]
    /\ window_before = Missing
IdleStages == IdleSummary /\ IdleUpdate /\ IdleOverlap

(***************************************************************************)
(* SpecRoC: compute_rate_of_change applied to every series of at most      *)
(* MaxLen rows, in any order and with repeats, drawn from the readings of  *)
(* site 1 at three timestamps (null, zero, 10 and 15 among its flows) and  *)
(* one reading of site 2 to stand between them.                            *)
(***************************************************************************)
RocFlows == [t \in {0, 300, 600} |->
                IF t = 0 THEN {NaN, Flt(0), Flt(10)}
                ELSE IF t = 300 THEN {NaN, Flt(0), Flt(10), Flt(15)}
                ELSE {Flt(10), Flt(15)}]
RocRows ==
    UNION {[site_no : {1}, timestamp_utc : {t}, flow_cfs : RocFlows[t]] : t \in DOMAIN RocFlows}
        \cup {[site_no |-> 2, timestamp_utc |-> 300, flow_cfs |-> Flt(10)]}

InitRoC ==
    /\ series \in SeqsUpTo(RocRows, MaxLen)
    /\ rated = <<>>
    /\ latest = <<>>
    /\ roc_pc = "input"
    /\ IdleCmp
    /\ IdleFiles
    /\ IdleStages

ComputeRateOfChange ==
    /\ roc_pc = "input"
    /\ rated' = WithPctChange(series)
    /\ latest' \in {LatestPerSite(rated', m) : m \in TieBreaks(rated')}
    /\ roc_pc' = "done"
    /\ UNCHANGED <<series, cmpVars, fetchVars, processVars, stageVars>>

NextRoC == ComputeRateOfChange

SpecRoC == InitRoC /\ [][NextRoC]_vars

(***************************************************************************)
(* SpecCmp: the comparison stage applied to every current snapshot of at   *)
(* most MaxCur rows and every baseline table of at most MaxHist rows.      *)
(***************************************************************************)
CmpTimes == {300, SecondsPerDay + 300}
CmpFlows == {NaN, Flt(0), Flt(9), Flt(10), Flt(12)}
CmpRows == [site_no : Sites, timestamp_utc : CmpTimes, flow_cfs : CmpFlows]
HistRows == [site_no : Sites, day_of_year : {1}, p90_flow_cfs : {Flt(0), Flt(10)}]

InitCmp ==
    /\ df_current \in SeqsUpTo(CmpRows, MaxCur)
    /\ df_hist \in SeqsUpTo(HistRows, MaxHist)
    /\ df_results = <<>>
    /\ cmp_pc = "input"
    /\ IdleRoC
    /\ IdleFiles
    /\ IdleStages

\* compare_to_p90.main, lines 113-114
Compare ==
    /\ cmp_pc = "input"
    /\ df_results' = CompareToHistorical(PrepareCurrentData(df_current), df_hist)
    /\ cmp_pc' = "done"
    /\ UNCHANGED <<df_current, df_hist, rocVars, fetchVars, processVars, stageVars>>

NextCmp == Compare

SpecCmp == InitCmp /\ [][NextCmp]_vars

(***************************************************************************)
(* Spec: fetch_data.py run against its file.  The clock advances, and at   *)
(* any time fetch_data.main may run; a run is one step.                    *)
(* SpecProcess: the same with process_gauge_data.main run at any time on   *)
(* the window, with or without a baseline table.                           *)
(***************************************************************************)
\* the baseline tables the runs may find
Baselines ==
    {Missing,
     File(<<[site_no |-> 1, day_of_year |-> 1, p90_flow_cfs |-> Flt(10)]>>)}

Init ==
    /\ now = 0
    /\ gauge_data = Missing
    /\ fetched = <<>>
    /\ outcome = "none"
    /\ runs = 0
    /\ historical_p90 = Missing
    /\ gauge_data_processed = Missing
    /\ IdleRoC
    /\ IdleCmp
    /\ IdleStages

InitProcess ==
    /\ now = 0
    /\ gauge_data = Missing
    /\ fetched = <<>>
    /\ outcome = "none"
    /\ runs = 0
    /\ historical_p90 \in Baselines
    /\ gauge_data_processed = Missing
    /\ IdleRoC
    /\ IdleCmp
    /\ IdleStages

Tick ==
    /\ now < MaxTicks * ReadingStep
    /\ now' = now + ReadingStep
    /\ UNCHANGED <<gauge_data, fetched, outcome, runs, processVars, rocVars, cmpVars, stageVars>>

\* fetch_data.main with a response from the service.  An existing file
\* without rows makes load_last_timestamp return NaT, and the strftime of
\* fetch_va_iv_since raises on it before anything is fetched.
FetchDataRun ==
    /\ runs < MaxRuns
    /\ runs' = runs + 1
    /\ IF gauge_data.exists /\ gauge_data.rows = <<>>
       THEN /\ outcome' = "raised"
            /\ UNCHANGED <<gauge_data, fetched>>
       ELSE \E cond \in [Sites -> Conditions] :
               LET last_time == LoadLastTimestamp(gauge_data, now)
                   df == FetchVaIvSince(last_time, now, cond)
               IN  /\ fetched' = df
                   /\ gauge_data' = WriteIfNotEmpty(df, gauge_data, now)
                   /\ outcome' = IF df # <<>> THEN "updated" ELSE "noop"
    /\ UNCHANGED now

FetchDataMain ==
    /\ FetchDataRun
    /\ UNCHANGED <<processVars, rocVars, cmpVars, stageVars>>

\* fetch_data.main when the request fails (timeout, raise_for_status)
FetchDataMainFails ==
    /\ runs < MaxRuns
    /\ runs' = runs + 1
    /\ outcome' = "raised"
    /\ UNCHANGED <<now, gauge_data, fetched, processVars, rocVars, cmpVars, stageVars>>

\* process_gauge_data.main
ProcessGaugeDataMain ==
    /\ gauge_data.exists
    /\ gauge_data.rows # <<>>
    /\ LET df_final == ProcessedFrame(gauge_data.rows, historical_p90)
       IN  gauge_data_processed' \in
              {File(FinalColumns(LatestPerSite(df_final, m))) : m \in TieBreaks(df_final)}
    /\ UNCHANGED <<historical_p90, fetchVars, rocVars, cmpVars, stageVars>>

Next == Tick \/ FetchDataMain \/ FetchDataMainFails

Spec == Init /\ [][Next]_vars

NextProcess == Next \/ ProcessGaugeDataMain

SpecProcess == InitProcess /\ [][NextProcess]_vars

(***************************************************************************)
(* SpecSummary: compare_to_p90.main run once against its files: current    *)
(* files of at most MaxCur rows or none, a baseline table that is absent,  *)
(* without rows or of one row, and the summary of an earlier run or none.  *)
(***************************************************************************)
\* the summary an earlier run left: site 2 at its baseline on day 1
EarlierSummary ==
    CompareToHistorical(
        PrepareCurrentData(<<[site_no |-> 2, timestamp_utc |-> 300, flow_cfs |-> Flt(10)]>>),
        <<[site_no |-> 2, day_of_year |-> 1, p90_flow_cfs |-> Flt(10)]>>)

\* load_current_data: the rows of the current files that exist
LoadCurrentData(file) == IF file.exists THEN file.rows ELSE <<>>

\* main, lines 100-118: what the run leaves in the summary file
SummaryWritten(cur, hist, summary) ==
    IF LoadCurrentData(cur) = <<>> THEN summary
    ELSE IF ~hist.exists THEN summary
    ELSE IF hist.rows = <<>> THEN summary
    ELSE File(CompareToHistorical(PrepareCurrentData(LoadCurrentData(cur)), hist.rows))

\* main, lines 100-111: how the run ends
SummaryOutcome(cur, hist) ==
    IF LoadCurrentData(cur) = <<>> THEN "no current data"
    ELSE IF ~hist.exists THEN "no historical file"
    ELSE IF hist.rows = <<>> THEN "historical empty"
    ELSE "saved"

InitSummary ==
    /\ current_files \in {Missing} \cup {File(s) : s \in SeqsUpTo(CmpRows, MaxCur)}
    /\ historical_p90 \in {Missing} \cup {File(h) : h \in SeqsUpTo(HistRows, 1)}
    /\ high_flow_summary \in {Missing, File(EarlierSummary)}
    /\ compare_pc = "ready"
    /\ now = 0 /\ gauge_data = Missing /\ fetched = <<>> /\ outcome = "none" /\ runs = 0
    /\ gauge_data_processed = Missing
    /\ IdleRoC
    /\ IdleCmp
    /\ IdleUpdate
    /\ IdleOverlap

\* compare_to_p90.main
CompareMain ==
    /\ compare_pc = "ready"
    /\ high_flow_summary' = SummaryWritten(current_files, historical_p90, high_flow_summary)
    /\ compare_pc' = SummaryOutcome(current_files, historical_p90)
    /\ UNCHANGED <<current_files, rocVars, cmpVars, fetchVars, processVars, updateVars, overlapVars>>

NextSummary == CompareMain

SpecSummary == InitSummary /\ [][NextSummary]_vars

(***************************************************************************)
(* SpecUpdate: update_data.update run again and again against the files.   *)
(* A run is a sequence of steps, one per call of update: fetch_data.main,  *)
(* analyze_rate_of_change.main, compare_to_p90.main, log_update.  update   *)
(* catches nothing, so a call that raises, or an interrupt of the process, *)
(* ends the run where it stands.                                           *)
(***************************************************************************)
MAX_LOG_RECORDS == 100

\* the current files the analysis scripts may find
CurrentFiles ==
    {Missing,
     File(<<[site_no |-> 1, timestamp_utc |-> 300, flow_cfs |-> Flt(10)]>>),
     File(<<[site_no |-> 1, timestamp_utc |-> 300, flow_cfs |-> Flt(10)],
            [site_no |-> 2, timestamp_utc |-> 300, flow_cfs |-> Flt(12)]>>)}

\* the data files a run of update writes
DataFiles == <<gauge_data, rate_of_change, high_flow_summary>>

\* analyze_rate_of_change.main, lines 31 and 43-56: the columns kept and
\* what the call leaves in the derived file
KeepCols(df) ==
    [i \in 1..Len(df) |->
        [site_no |-> df[i].site_no,
         timestamp_utc |-> df[i].timestamp_utc,
         flow_cfs |-> df[i].flow_cfs,
         pct_change |-> df[i].pct_change]]
RateOfChangeWritten(cur, derived) ==
    IF LoadCurrentData(cur) = <<>> THEN {derived}
    ELSE LET df == WithPctChange(cur.rows)
         IN  {File(KeepCols(LatestPerSite(df, m))) : m \in TieBreaks(df)}

\* log_update: one more record, the last MAX_LOG_RECORDS kept
LogUpdate(n) == IF n + 1 > MAX_LOG_RECORDS THEN MAX_LOG_RECORDS ELSE n + 1

InitUpdate ==
    /\ now = 0
    /\ gauge_data = Missing
    /\ fetched = <<>>
    /\ outcome = "none"
    /\ runs = 0
    /\ historical_p90 \in Baselines
    /\ gauge_data_processed = Missing
    /\ current_files \in CurrentFiles
    /\ high_flow_summary = Missing
    /\ compare_pc = "idle"
    /\ IdleUpdate
    /\ IdleOverlap
    /\ IdleRoC
    /\ IdleCmp

\* the clock advances between runs and between the calls of a run
UpdateTick ==
    /\ Tick

\* update, line 40: fetch_data_main()
UpdateFetch ==
    /\ update_pc \in {"idle", "done", "aborted"}
    /\ at_start' = DataFiles
    /\ FetchDataRun
    /\ update_pc' = IF outcome' = "raised" THEN "aborted" ELSE "fetched"
    /\ UNCHANGED <<rate_of_change, update_log, summaryVars, overlapVars, processVars, rocVars, cmpVars>>

\* update, line 40: the request of fetch_data_main() fails
UpdateFetchFails ==
    /\ update_pc \in {"idle", "done", "aborted"}
    /\ runs < MaxRuns
    /\ runs' = runs + 1
    /\ at_start' = DataFiles
    /\ outcome' = "raised"
    /\ update_pc' = "aborted"
    /\ UNCHANGED <<now, gauge_data, fetched, rate_of_change, update_log, summaryVars,
                   overlapVars, processVars, rocVars, cmpVars>>

\* update, line 41: rate_of_change_main()
UpdateRateOfChange ==
    /\ update_pc = "fetched"
    /\ rate_of_change' \in RateOfChangeWritten(current_files, rate_of_change)
    /\ update_pc' = "rated"
    /\ UNCHANGED <<update_log, at_start, summaryVars, overlapVars, fetchVars, processVars,
                   rocVars, cmpVars>>

\* update, line 42: compare_main()
UpdateCompare ==
    /\ update_pc = "rated"
    /\ high_flow_summary' = SummaryWritten(current_files, historical_p90, high_flow_summary)
    /\ compare_pc' = SummaryOutcome(current_files, historical_p90)
    /\ update_pc' = "compared"
    /\ UNCHANGED <<current_files, rate_of_change, update_log, at_start, overlapVars, fetchVars,
                   processVars, rocVars, cmpVars>>

\* update, line 43: log_update()
UpdateLog ==
    /\ update_pc = "compared"
    /\ update_log' = LogUpdate(update_log)
    /\ update_pc' = "done"
    /\ UNCHANGED <<rate_of_change, at_start, summaryVars, overlapVars, fetchVars, processVars,
                   rocVars, cmpVars>>

\* update, lines 41-43: the call the run has reached raises (a file that
\* cannot be parsed or written), or the process is interrupted before it
UpdateStageRaises ==
    /\ update_pc \in {"fetched", "rated", "compared"}
    /\ update_pc' = "aborted"
    /\ UNCHANGED <<rate_of_change, update_log, at_start, summaryVars, overlapVars, fetchVars,
                   processVars, rocVars, cmpVars>>

NextUpdate ==
    \/ UpdateTick
    \/ UpdateFetch
    \/ UpdateFetchFails
    \/ UpdateRateOfChange
    \/ UpdateCompare
    \/ UpdateLog
    \/ UpdateStageRaises

SpecUpdate == InitUpdate /\ [][NextUpdate]_vars

(***************************************************************************)
(* SpecOverlap: two runs of fetch_data.main started at the same time on a  *)
(* window that earlier runs, one after the other, have left.  Nothing in   *)
(* the script serialises runs, so the steps of the two (load the last      *)
(* timestamp, fetch, read the old window, write the new one) interleave    *)
(* freely.  The two runs end within one reading step: the clock stands     *)
(* still while they are in progress, and the service may answer the two    *)
(* requests differently.                                                   *)
(***************************************************************************)
Runs == {1, 2}

\* a run that has not begun
NotBegun ==
    [pc |-> "start", last_time |-> 0, cond |-> [s \in Sites |-> "absent"],
     df |-> <<>>, df_old |-> Missing, written |-> <<>>, overlapped |-> FALSE]

\* a run that has begun and not ended
InProgress(r) == run_state[r].pc \in {"loaded", "fetched", "read"}

Ended(r) == run_state[r].pc \in {"done", "raised"}

InitOverlap ==
    /\ now = 0
    /\ gauge_data = Missing
    /\ fetched = <<>>
    /\ outcome = "none"
    /\ runs = 0
    /\ historical_p90 = Missing
    /\ gauge_data_processed = Missing
    /\ run_state = [r \in Runs |-> NotBegun]
    /\ window_before = Missing
    /\ IdleSummary
    /\ IdleUpdate
    /\ IdleRoC
    /\ IdleCmp

\* before the two runs begin: the clock advances, earlier runs complete
EarlierTick ==
    /\ \A r \in Runs : run_state[r].pc = "start"
    /\ Tick

EarlierRun ==
    /\ \A r \in Runs : run_state[r].pc = "start"
    /\ FetchDataMain

\* main, line 109: load_last_timestamp(DATA_FILE); NaT from a file without
\* rows makes the fetch raise
RunLoad(r) ==
    /\ run_state[r].pc = "start"
    /\ window_before' = IF \A q \in Runs : run_state[q].pc = "start"
                        THEN gauge_data ELSE window_before
    /\ run_state' =
          [run_state EXCEPT ![r] =
              IF gauge_data.exists /\ gauge_data.rows = <<>>
              THEN [@ EXCEPT !.pc = "raised"]
              ELSE [@ EXCEPT !.pc = "loaded",
                             !.last_time = LoadLastTimestamp(gauge_data, now),
                             !.overlapped = \E q \in Runs \ {r} : InProgress(q)]]
    /\ UNCHANGED <<fetchVars, processVars, summaryVars, updateVars, rocVars, cmpVars>>

\* main, lines 112-119: fetch_va_iv_since(last_time); an empty frame ends
\* the run
RunFetch(r) ==
    /\ run_state[r].pc = "loaded"
    /\ \E cond \in [Sites -> Conditions] :
          LET df == FetchVaIvSince(run_state[r].last_time, now, cond)
          IN  run_state' =
                 [run_state EXCEPT ![r] =
                     [@ EXCEPT !.pc = IF df # <<>> THEN "fetched" ELSE "done",
                               !.cond = cond,
                               !.df = df]]
    /\ UNCHANGED <<window_before, fetchVars, processVars, summaryVars, updateVars, rocVars, cmpVars>>

\* append_and_trim, lines 92-96: the file as the run finds and reads it
RunReadOld(r) ==
    /\ run_state[r].pc = "fetched"
    /\ run_state' = [run_state EXCEPT ![r] = [@ EXCEPT !.pc = "read", !.df_old = gauge_data]]
    /\ UNCHANGED <<window_before, fetchVars, processVars, summaryVars, updateVars, rocVars, cmpVars>>

\* append_and_trim, lines 98-100: the rows read and fetched, trimmed, are
\* written over the file
RunWrite(r) ==
    /\ run_state[r].pc = "read"
    /\ gauge_data' = AppendAndTrim(run_state[r].df, run_state[r].df_old, now)
    /\ run_state' =
          [run_state EXCEPT ![r] = [@ EXCEPT !.pc = "done", !.written = gauge_data'.rows]]
    /\ UNCHANGED <<window_before, now, fetched, outcome, runs, processVars, summaryVars,
                   updateVars, rocVars, cmpVars>>

NextOverlap ==
    \/ EarlierTick
    \/ EarlierRun
    \/ \E r \in Runs : RunLoad(r) \/ RunFetch(r) \/ RunReadOld(r) \/ RunWrite(r)

SpecOverlap == InitOverlap /\ [][NextOverlap]_vars

(***************************************************************************)
(* Properties of the ingestion.                                            *)
(***************************************************************************)
WindowRows == gauge_data.rows

\* a step that is a run of fetch_data.main in which the fetch returned
FetchReturned == runs' = runs + 1 /\ outcome' # "raised"

\* C1: the persisted window holds at most one row per (site_no, timestamp).
C1_OneRowPerKey ==
    \A i, j \in 1..Len(WindowRows) :
        (/\ WindowRows[i].site_no = WindowRows[j].site_no
         /\ WindowRows[i].timestamp_utc = WindowRows[j].timestamp_utc) => i = j

\* C2: right after an append, every row of the persisted window, old or
\* new, has a timestamp no older than now minus the retention.
C2_RetentionOnAppend ==
    [][(FetchReturned /\ outcome' = "updated") =>
          \A i \in 1..Len(gauge_data'.rows) :
              gauge_data'.rows[i].timestamp_utc >= now' - RetentionHours * SecondsPerHour]_vars

C2_Witness ==
    /\ outcome = "updated"
    /\ \E i \in 1..Len(fetched) :
          fetched[i].timestamp_utc < now - RetentionHours * SecondsPerHour
    /\ WindowRows # <<>>
    /\ \A i \in 1..Len(WindowRows) :
          WindowRows[i].timestamp_utc >= now - RetentionHours * SecondsPerHour

\* C3: a run whose fetch returns no rows ends normally and leaves the
\* persisted window as it was.
C3_EmptyBatchNoOp ==
    [][(FetchReturned /\ fetched' = <<>>) =>
          (outcome' = "noop" /\ gauge_data' = gauge_data)]_vars

C3_Witness ==
    /\ outcome = "noop"
    /\ fetched = <<>>
    /\ runs = 2
    /\ \E i \in 1..Len(WindowRows) :
          WindowRows[i].timestamp_utc < now - RetentionHours * SecondsPerHour

\* C10: a reading whose value is not a number is kept in the window with a
\* null flow, and every site with a row in the window has a row in the
\* processed output written from it.
C10_NoEntityRemoved ==
    [][/\ (FetchReturned /\ outcome' = "updated") =>
            \A i \in 1..Len(fetched') :
                fetched'[i].timestamp_utc >= now' - RetentionHours * SecondsPerHour =>
                    \E k \in 1..Len(gauge_data'.rows) : gauge_data'.rows[k] = fetched'[i]
       /\ gauge_data_processed' # gauge_data_processed =>
            \A s \in SitesOf(WindowRows) :
                \E k \in 1..Len(gauge_data_processed'.rows) :
                    gauge_data_processed'.rows[k].site_no = s]_vars

(***************************************************************************)
(* Properties of the rate of change.                                       *)
(***************************************************************************)
\* how often row r occurs in frame df, read by site, timestamp and flow
Count(df, r) ==
    Cardinality({i \in 1..Len(df) : /\ df[i].site_no = r.site_no
                                    /\ df[i].timestamp_utc = r.timestamp_utc
                                    /\ df[i].flow_cfs = r.flow_cfs})

\* the rows of the same site before row i of the rated frame
Before(i) == {j \in 1..(i - 1) : rated[j].site_no = rated[i].site_no}

\* the row n samples earlier than row i in the series of i's site
Earlier(i, n) ==
    CHOOSE j \in Before(i) : Cardinality({m \in Before(i) : m > j}) = n - 1

\* C4: the rated frame holds the rows of the input, each site's rows in
\* ascending timestamp order; the percent change of a row with fewer than N
\* earlier rows of its own site is null; otherwise it is taken against the
\* row N places earlier in the site's own series: null when either flow is
\* null, and (flow - earlier) / earlier * 100 when the earlier flow is not zero.
C4_SampleCountLookback ==
    roc_pc = "done" =>
        /\ Len(rated) = Len(series)
        /\ \A i \in 1..Len(series) : Count(rated, series[i]) = Count(series, series[i])
        /\ \A i, j \in 1..Len(rated) :
              i < j /\ rated[i].site_no = rated[j].site_no =>
                  rated[i].timestamp_utc <= rated[j].timestamp_utc
        /\ \A i \in 1..Len(rated) : \A l \in Labels :
              LET pct == rated[i].pct_change[l]
                  cur == rated[i].flow_cfs
              IN  IF Cardinality(Before(i)) < WINDOWS[l] THEN IsNull(pct)
                  ELSE LET old == rated[Earlier(i, WINDOWS[l])].flow_cfs
                       IN  IF IsNull(cur) \/ IsNull(old) THEN IsNull(pct)
                           ELSE old.n # 0 =>
                                /\ IsFinite(pct)
                                /\ pct.n * (cur.d * old.n) =
                                      (cur.n * old.d - old.n * cur.d) * 100 * pct.d

C4_Witness ==
    /\ roc_pc = "done"
    /\ Cardinality(SitesOf(series)) = 2
    /\ series[1].timestamp_utc > series[Len(series)].timestamp_utc
    /\ \E i \in 1..Len(rated) :
          /\ rated[i].pct_change.h1 = Flt(50)
          /\ rated[i].pct_change.h3 = Flt(50)
          /\ IsNull(rated[i].pct_change.h6)

\* C5: a row whose lookback row has a zero or null flow has a null percent
\* change, whatever its own flow.
C5_ZeroOrNullEarlierIsNull ==
    roc_pc = "done" =>
        \A i \in 1..Len(rated) : \A l \in Labels :
            Cardinality(Before(i)) >= WINDOWS[l] =>
                LET old == rated[Earlier(i, WINDOWS[l])].flow_cfs
                IN  (IsNull(old) \/ old = Flt(0)) => IsNull(rated[i].pct_change[l])

\* C6: for a non-empty input the output holds exactly one row per site of
\* the input and no other row; the row has the site's greatest timestamp
\* and is a row of the rated frame, with the percent changes computed there.
C6_LatestRowPerEntity ==
    (roc_pc = "done" /\ series # <<>>) =>
        /\ \A s \in SitesOf(series) :
              Cardinality({k \in 1..Len(latest) : latest[k].site_no = s}) = 1
        /\ \A k \in 1..Len(latest) :
              /\ latest[k].site_no \in SitesOf(series)
              /\ \A i \in 1..Len(series) :
                    series[i].site_no = latest[k].site_no =>
                        series[i].timestamp_utc <= latest[k].timestamp_utc
              /\ \E i \in 1..Len(rated) : rated[i] = latest[k]

C6_Witness ==
    /\ roc_pc = "done"
    /\ Len(series) = 4
    /\ Len(latest) = 2
    /\ \E k \in 1..2 : latest[k].timestamp_utc = 600 /\ latest[k].pct_change.h1 = Flt(50)
    /\ \E k \in 1..2 : latest[k].timestamp_utc = 300 /\ IsNull(latest[k].pct_change.h1)

(***************************************************************************)
(* Properties of the comparison.                                           *)
(***************************************************************************)
\* C7: every site of the current snapshot stands in exactly one row of the
\* comparison output.
C7_EveryEntityExactlyOnce ==
    cmp_pc = "done" =>
        \A s \in SitesOf(df_current) :
            Cardinality({k \in 1..Len(df_results) : df_results[k].site_no = s}) = 1

\* the baseline has an entry for the site and the day of output row r
HasBaseline(r) ==
    \E h \in 1..Len(df_hist) :
        /\ df_hist[h].site_no = r.site_no
        /\ df_hist[h].day_of_year = (r.timestamp_utc \div 86400) + 1

\* C8: high_flow is true exactly when the ratio is not null and at least 1;
\* against a positive p90_flow that is exactly when flow >= p90_flow; a row
\* with no baseline entry has a null p90_flow, a null ratio and high_flow false.
C8_HighFlowThreshold ==
    cmp_pc = "done" =>
        \A k \in 1..Len(df_results) :
            LET r == df_results[k]
            IN  /\ r.high_flow \in BOOLEAN
                /\ r.high_flow <=>
                      \/ r.ratio.k = "inf" /\ r.ratio.n > 0
                      \/ r.ratio.k = "num" /\ r.ratio.n >= r.ratio.d
                /\ (r.p90_flow_cfs.k = "num" /\ r.p90_flow_cfs.n > 0) =>
                      (r.high_flow <=>
                          r.flow_cfs.n * r.p90_flow_cfs.d >= r.p90_flow_cfs.n * r.flow_cfs.d)
                /\ ~HasBaseline(r) =>
                      IsNull(r.p90_flow_cfs) /\ IsNull(r.ratio) /\ ~r.high_flow

C8_Witness ==
    /\ cmp_pc = "done"
    /\ Len(df_results) = 2
    /\ \E k \in 1..2 :
          /\ df_results[k].flow_cfs = Flt(10)
          /\ df_results[k].p90_flow_cfs = Flt(10)
          /\ df_results[k].ratio = Flt(1)
          /\ df_results[k].high_flow
    /\ \E k \in 1..2 :
          /\ df_results[k].flow_cfs = Flt(9)
          /\ df_results[k].p90_flow_cfs = Flt(10)
          /\ ~df_results[k].high_flow

\* C9: a row whose baseline p90_flow is zero has a null ratio and is not
\* flagged high_flow.
C9_ZeroBaselineNullRatio ==
    cmp_pc = "done" =>
        \A k \in 1..Len(df_results) :
            df_results[k].p90_flow_cfs = Flt(0) =>
                IsNull(df_results[k].ratio) /\ ~df_results[k].high_flow

(***************************************************************************)
(* Properties of compare_to_p90.main.                                      *)
(***************************************************************************)
\* the baseline table is absent or has no rows
NoBaseline == ~historical_p90.exists \/ historical_p90.rows = <<>>

\* the sites that have a row in the current files
CurrentSites == SitesOf(LoadCurrentData(current_files))

\* a summary row whose baseline fields are null and whose flag is not set
BaselineFieldsNull(r) == IsNull(r.p90_flow_cfs) /\ IsNull(r.ratio) /\ ~r.high_flow

\* C11: when the baseline table is absent or empty and the current files
\* hold observations, the run of the comparison writes its summary: one row
\* for each current site and no others, the baseline fields of every row
\* null; the summary of the earlier run does not stay in place.
C11_MissingBaselineStillWrites ==
    [][(compare_pc = "ready" /\ compare_pc' # "ready" /\ NoBaseline /\ CurrentSites # {}) =>
          /\ high_flow_summary'.exists
          /\ \A s \in CurrentSites :
                 Cardinality({i \in 1..Len(high_flow_summary'.rows) :
                                 high_flow_summary'.rows[i].site_no = s}) = 1
          /\ \A i \in 1..Len(high_flow_summary'.rows) :
                 /\ high_flow_summary'.rows[i].site_no \in CurrentSites
                 /\ BaselineFieldsNull(high_flow_summary'.rows[i])]_vars

(***************************************************************************)
(* Properties of update_data.update.                                       *)
(***************************************************************************)
\* C12: a run of update that failed or was interrupted before its last
\* write leaves every data file (the window, the rate-of-change output, the
\* comparison output) as it was when the run began.
C12_AbortLeavesFilesUntouched == update_pc = "aborted" => DataFiles = at_start

(***************************************************************************)
(* Properties of overlapping runs of fetch_data.main.                      *)
(***************************************************************************)
\* fetch_data.main as one step: the window a run leaves that finds this
\* window and gets this response
SerialRun(file, cond) ==
    IF file.exists /\ file.rows = <<>> THEN file
    ELSE WriteIfNotEmpty(FetchVaIvSince(LoadLastTimestamp(file, now), now, cond), file, now)

\* the windows the two runs leave when one runs after the other
SerialWindows ==
    {SerialRun(SerialRun(window_before, run_state[1].cond), run_state[2].cond),
     SerialRun(SerialRun(window_before, run_state[2].cond), run_state[1].cond)}

Stored(row) == \E i \in 1..Len(WindowRows) : WindowRows[i] = row

BothEnded == run_state # <<>> /\ \A r \in Runs : Ended(r)

\* the two runs were in progress at the same time
Overlapped == \E r \in Runs : run_state[r].overlapped

\* rows of the window with this row's site_no and timestamp_utc
Copies(row) ==
    Cardinality({i \in 1..Len(WindowRows) :
                    /\ WindowRows[i].site_no = row.site_no
                    /\ WindowRows[i].timestamp_utc = row.timestamp_utc})

\* C13: when two runs that were in progress at the same time have both
\* ended, the window is the one the two runs leave when run one after the
\* other in some order, every observation either run wrote is in it, and no
\* observation that both runs fetched is in it twice.
C13_OverlapAsSerial ==
    (BothEnded /\ Overlapped) =>
        /\ gauge_data \in SerialWindows
        /\ \A r \in Runs : \A i \in 1..Len(run_state[r].written) :
               Stored(run_state[r].written[i])
        /\ \A i \in 1..Len(run_state[1].df) :
               (\E j \in 1..Len(run_state[2].df) :
                    /\ run_state[2].df[j].site_no = run_state[1].df[i].site_no
                    /\ run_state[2].df[j].timestamp_utc = run_state[1].df[i].timestamp_utc)
               => Copies(run_state[1].df[i]) <= 1

(***************************************************************************)
(* Properties of runs of fetch_data.main one after the other.              *)
(***************************************************************************)
\* the newest timestamp the window holds
NewestStored == Max({WindowRows[i].timestamp_utc : i \in 1..Len(WindowRows)})

\* rows of these with this site_no and timestamp_utc
CopiesIn(rows, s, ts) ==
    Cardinality({i \in 1..Len(rows) : rows[i].site_no = s /\ rows[i].timestamp_utc = ts})

\* C14: a run that starts from load_last_timestamp and fetches from that
\* instant, as the request renders it, fetches no reading at or before the
\* newest timestamp the window already holds, and leaves a window in which
\* every (site_no, timestamp) has one row.
C14_SerialRunsStoreOnce ==
    [][FetchReturned =>
          /\ (gauge_data.exists /\ WindowRows # <<>>) =>
                 \A j \in 1..Len(fetched') : fetched'[j].timestamp_utc > NewestStored
          /\ \A i \in 1..Len(gauge_data'.rows) :
                 CopiesIn(gauge_data'.rows, gauge_data'.rows[i].site_no,
                          gauge_data'.rows[i].timestamp_utc) = 1]_vars

====
